---- MODULE Spec2Model ----
(***************************************************************************)
(* Model of src/src/connection.rs: the Connection facade (call and         *)
(* call_method), the message dispatching thread started by Connection::new *)
(* and the channels between them.  The waiting-call registry and the       *)
(* message codec (crate::waiting_call_registry, crate::cdtp) are not part  *)
(* of connection.rs; they are modelled from sections 4.2 and 4.3 of the    *)
(* specification.                                                          *)
(***************************************************************************)
EXTENDS Integers, Sequences, FiniteSets

\* Bounds of the model.
MaxCalls == 2       \* calls issued on the connection
MaxFrames == 3      \* items pulled from the websocket by the dispatcher
MaxId == 1          \* largest id to_method_call may pick / a response may carry

VARIABLES
    next_call_id,       \* Connection.next_call_id
    pc,                 \* position of the thread inside call / call_method
    history,            \* one record per call started on the connection
    calls,              \* the registry's map: call id -> delivery slot (call number)
    slot,               \* the delivery slot (response_rx) of the call in progress
    browser_responses,  \* mpsc channel dispatcher -> registry
    dispatcher,         \* the message handling thread: "running", "finished"
                        \* (loop ended) or the panic that ended it
    target_messages,    \* what was sent on target_messages_tx, in order
    target_rx_alive,    \* whether the receiver of target_messages_tx still exists
    browser_events,     \* what was delivered on a browser-events channel
    wire_events,        \* the event frames the dispatcher decoded, in wire order
    nframes,            \* number of items the dispatcher pulled so far
    nodata              \* how many of them were Err(NoDataAvailable)

vars == <<next_call_id, pc, history, calls, slot, browser_responses, dispatcher,
          target_messages, target_rx_alive, browser_events, wire_events,
          nframes, nodata>>

----------------------------------------------------------------------------
\* Wire forms.  A text frame is a JSON object, modelled as a record whose
\* domain is the set of fields present.

Ids == 0..MaxId

OkResult == [browserContextId |-> "C1"]
NullValue == [null |-> TRUE]
ProtocolError == [code |-> -32601, message |-> "unknown"]
NoError == [none |-> TRUE]
Garbage == [malformed |-> TRUE]

ReceivedMessageFromTarget == "Target.receivedMessageFromTarget"

RawResponses ==
    {[id |-> i, result |-> OkResult] : i \in Ids}
        \cup {[id |-> i, error |-> ProtocolError] : i \in Ids}

InnerTexts ==
    {[id |-> 0, result |-> OkResult], [method |-> "Page.loadEventFired"], Garbage}

RawEvents ==
    {[method |-> ReceivedMessageFromTarget, message |-> m] : m \in InnerTexts}
        \cup {[method |-> "Target.targetCreated"]}

RawTexts == RawResponses \cup RawEvents \cup {Garbage}

----------------------------------------------------------------------------
\* Message codec (cdtp::parse_raw_message), from section 4.2: a response is
\* recognised by a top-level id, an event by its method name.

Decodable(raw) == "id" \in DOMAIN raw \/ "method" \in DOMAIN raw

parse_raw_message(raw) ==
    IF "id" \in DOMAIN raw
    THEN [type |-> "Response",
          call_id |-> raw.id,
          result |-> IF "result" \in DOMAIN raw THEN raw.result ELSE NullValue,
          error |-> IF "error" \in DOMAIN raw THEN raw.error ELSE NoError]
    ELSE IF raw.method = ReceivedMessageFromTarget
         THEN [type |-> "Event", event |-> "ReceivedMessageFromTarget",
               message |-> raw.message]
         ELSE [type |-> "Event", event |-> "Other", name |-> raw.method]

\* serde_json::from_value::<R>(response.result): Ok when the value has the
\* declared return shape.
FromValueOk(result) == "browserContextId" \in DOMAIN result

from_value(result) == [context |-> result.browserContextId]

NoValue == [nothing |-> TRUE]

----------------------------------------------------------------------------
\* Waiting call registry, from section 4.3.

EmptySlot == [state |-> "empty"]
FullSlot(r) == [state |-> "full", value |-> r]

\* register(CallId): a fresh slot is inserted under the id.
register_call(reg, id, n) == [i \in DOMAIN reg \cup {id} |-> IF i = id THEN n ELSE reg[i]]

\* resolve(Response): the entry of Response.id is removed.
RemoveEntry(reg, id) == [i \in DOMAIN reg \ {id} |-> reg[i]]

----------------------------------------------------------------------------
\* The call in progress is the last record of history.

Terminated == dispatcher # "running"

\* The registry, a field of the Connection, owns browser_responses_rx.
RegistryAlive == pc # "dropped"

CallNo == Len(history)
Cur == history[CallNo]

NewCall(op, id, sendok) ==
    [op |-> op, id |-> id, sent |-> sendok,
     after_term |-> Terminated,
     answered |-> FALSE,
     outcome |-> IF sendok THEN "InFlight" ELSE "SendPanic",
     response |-> NoValue, returned |-> NoValue]

Finish(outcome, resp, val) ==
    [history EXCEPT ![CallNo].outcome = outcome,
                    ![CallNo].response = resp,
                    ![CallNo].returned = val]

\* The ids put on the wire, in issue order.
RECURSIVE SentIds(_)
SentIds(h) ==
    IF h = <<>> THEN <<>>
    ELSE IF h[Len(h)].sent
         THEN Append(SentIds(SubSeq(h, 1, Len(h) - 1)), h[Len(h)].id)
         ELSE SentIds(SubSeq(h, 1, Len(h) - 1))

Init ==
    /\ next_call_id = 0
    /\ pc = "idle"
    /\ history = <<>>
    /\ calls = <<>>
    /\ slot = EmptySlot
    /\ browser_responses = <<>>
    /\ dispatcher = "running"
    /\ target_messages = <<>>
    /\ target_rx_alive = TRUE
    /\ browser_events = <<>>
    /\ wire_events = <<>>
    /\ nframes = 0
    /\ nodata = 0

----------------------------------------------------------------------------
\* Connection facade.

\* Connection::call up to send_message: the id is the one to_method_call put
\* in the call; next_call_id is neither read nor written.
CallSend ==
    /\ pc = "idle"
    /\ Len(history) < MaxCalls
    /\ \E id \in Ids, sendok \in BOOLEAN :
        /\ history' = Append(history, NewCall("call", id, sendok))
        /\ pc' = IF sendok THEN "sent" ELSE "panicked"
    /\ slot' = EmptySlot
    /\ UNCHANGED <<next_call_id, calls, browser_responses, dispatcher,
                   target_messages, target_rx_alive, browser_events,
                   wire_events, nframes,
                   nodata>>

\* call_method taking a shared reference: a call may start while another one
\* is still waiting for its response.
CallMethodSendShared ==
    /\ pc \in {"idle", "waiting"}
    /\ Len(history) < MaxCalls
    /\ next_call_id' = next_call_id + 1
    /\ \E sendok \in BOOLEAN :
        /\ history' = Append(history, NewCall("call_method", next_call_id, sendok))
        /\ pc' = IF sendok THEN "sent" ELSE "panicked"
    /\ slot' = EmptySlot
    /\ UNCHANGED <<calls, browser_responses, dispatcher,
                   target_messages, target_rx_alive, browser_events,
                   wire_events, nframes,
                   nodata>>

\* Connection::call_method up to send_message.
CallMethodSend ==
    /\ pc = "idle"
    /\ Len(history) < MaxCalls
    /\ next_call_id' = next_call_id + 1
    /\ \E sendok \in BOOLEAN :
        /\ history' = Append(history, NewCall("call_method", next_call_id, sendok))
        /\ pc' = IF sendok THEN "sent" ELSE "panicked"
    /\ slot' = EmptySlot
    /\ UNCHANGED <<calls, browser_responses, dispatcher,
                   target_messages, target_rx_alive, browser_events,
                   wire_events, nframes,
                   nodata>>

\* Register with the counter's current value instead of the id of the call.
RegisterUnderCounter ==
    /\ pc = "sent"
    /\ calls' = register_call(calls, next_call_id, CallNo)
    /\ pc' = "waiting"
    /\ UNCHANGED <<next_call_id, history, slot, browser_responses, dispatcher,
                   target_messages, target_rx_alive, browser_events,
                   wire_events, nframes,
                   nodata>>

\* register_call both before and after the send: the id is registered again
\* while the call is already waiting.
RegisterTwice ==
    /\ pc \in {"sent", "waiting"}
    /\ calls' = register_call(calls, Cur.id, CallNo)
    /\ pc' = "waiting"
    /\ UNCHANGED <<next_call_id, history, slot, browser_responses, dispatcher,
                   target_messages, target_rx_alive, browser_events,
                   wire_events, nframes,
                   nodata>>

\* self.call_registry.register_call(id), after the send.
Register ==
    /\ pc = "sent"
    /\ calls' = register_call(calls, Cur.id, CallNo)
    /\ pc' = "waiting"
    /\ UNCHANGED <<next_call_id, history, slot, browser_responses, dispatcher,
                   target_messages, target_rx_alive, browser_events,
                   wire_events, nframes,
                   nodata>>

\* response_rx.recv().unwrap(), then from_value(response.result).unwrap().
Recv ==
    /\ pc = "waiting"
    /\ slot.state # "empty"
    /\ IF slot.state = "disconnected"
       THEN /\ history' = Finish("RecvPanic", NoValue, NoValue)
            /\ pc' = "panicked"
       ELSE IF FromValueOk(slot.value.result)
            THEN /\ history' = Finish("Ok", slot.value, from_value(slot.value.result))
                 /\ pc' = "idle"
            ELSE /\ history' = Finish("DecodePanic", slot.value, NoValue)
                 /\ pc' = "panicked"
    /\ slot' = EmptySlot
    /\ UNCHANGED <<next_call_id, calls, browser_responses, dispatcher,
                   target_messages, target_rx_alive, browser_events,
                   wire_events, nframes,
                   nodata>>

\* The Connection goes out of scope between calls, or while a panic of the
\* calling thread unwinds.  There is no Drop implementation: the fields are
\* dropped (the send half and the registry with its receiver and its map),
\* and the message handling thread, whose JoinHandle was discarded, is left
\* as it is.
DropConnection ==
    /\ pc \in {"idle", "panicked"}
    /\ pc' = "dropped"
    /\ calls' = <<>>
    /\ browser_responses' = <<>>
    /\ UNCHANGED <<next_call_id, history, slot, dispatcher, target_messages,
                   target_rx_alive, browser_events, wire_events, nframes,
                   nodata>>

----------------------------------------------------------------------------
\* Registry side: the next response of the browser-responses channel is
\* resolved; without an entry it is dropped.
RegistryResolve ==
    /\ RegistryAlive
    /\ browser_responses # <<>>
    /\ LET r == Head(browser_responses) IN
        /\ browser_responses' = Tail(browser_responses)
        /\ IF r.call_id \in DOMAIN calls
           THEN /\ calls' = RemoveEntry(calls, r.call_id)
                /\ slot' = IF calls[r.call_id] = CallNo /\ pc = "waiting"
                           THEN FullSlot(r) ELSE slot
           ELSE UNCHANGED <<calls, slot>>
    /\ UNCHANGED <<next_call_id, pc, history, dispatcher, target_messages,
                   target_rx_alive, browser_events, wire_events,
                   nframes,
                   nodata>>

----------------------------------------------------------------------------
\* Message handling thread: one action per branch of the loop body.

\* The loop is not left after a failure.
PullAfterTermination ==
    /\ nframes < MaxFrames
    /\ nframes' = nframes + 1

Pull ==
    /\ dispatcher = "running"
    /\ nframes < MaxFrames
    /\ nframes' = nframes + 1

\* NoDataAvailable handled like every other websocket error.
DispatchNoDataPanics ==
    /\ Pull
    /\ nodata' = nodata + 1
    /\ dispatcher' = "ws_error"
    /\ UNCHANGED <<next_call_id, pc, history, calls, slot, browser_responses,
                   target_messages, target_rx_alive, browser_events,
                   wire_events>>

\* Err(WebSocketError::NoDataAvailable) => {}
DispatchNoData ==
    /\ Pull
    /\ nodata' = nodata + 1
    /\ UNCHANGED <<next_call_id, pc, history, calls, slot, browser_responses,
                   dispatcher, target_messages, target_rx_alive, browser_events,
                   wire_events>>

\* Err(_) => panic!
DispatchWsError ==
    /\ Pull
    /\ dispatcher' = "ws_error"
    /\ UNCHANGED <<next_call_id, pc, history, calls, slot, browser_responses,
                   target_messages, target_rx_alive, browser_events,
                   wire_events,
                   nodata>>

\* Ok(message) that is not OwnedMessage::Text => panic!
DispatchNonText ==
    /\ Pull
    /\ dispatcher' = "weird_message"
    /\ UNCHANGED <<next_call_id, pc, history, calls, slot, browser_responses,
                   target_messages, target_rx_alive, browser_events,
                   wire_events,
                   nodata>>

\* Text that parse_raw_message cannot decode.
DispatchMalformed ==
    /\ Pull
    /\ \E raw \in RawTexts : ~Decodable(raw)
    /\ dispatcher' = "malformed"
    /\ UNCHANGED <<next_call_id, pc, history, calls, slot, browser_responses,
                   target_messages, target_rx_alive, browser_events,
                   wire_events,
                   nodata>>

\* cdtp::Message::Response(response) => browser_responses_tx.send(response)
DispatchResponse ==
    /\ Pull
    /\ \E raw \in RawResponses :
        LET m == parse_raw_message(raw) IN
        IF RegistryAlive
        THEN /\ browser_responses' = Append(browser_responses, m)
             /\ history' = IF pc \in {"sent", "waiting"} /\ m.call_id = Cur.id
                           THEN [history EXCEPT ![CallNo].answered = TRUE]
                           ELSE history
             /\ UNCHANGED dispatcher
        ELSE /\ dispatcher' = "send_failed"
             /\ UNCHANGED <<browser_responses, history>>
    /\ UNCHANGED <<next_call_id, pc, calls, slot, target_messages,
                   target_rx_alive, browser_events, wire_events,
                   nodata>>

\* The parsed inner message goes through the same match as a top-level one:
\* an inner Response is sent on browser_responses_tx.
DispatchTargetEventToRegistry ==
    /\ Pull
    /\ \E raw \in RawEvents :
        /\ parse_raw_message(raw).event = "ReceivedMessageFromTarget"
        /\ wire_events' = Append(wire_events, raw)
        /\ LET inner == parse_raw_message(raw).message IN
           IF ~Decodable(inner)
           THEN /\ dispatcher' = "malformed"
                /\ UNCHANGED <<target_messages, browser_responses>>
           ELSE IF parse_raw_message(inner).type = "Response"
           THEN /\ browser_responses' = Append(browser_responses, parse_raw_message(inner))
                /\ UNCHANGED <<target_messages, dispatcher>>
           ELSE IF ~target_rx_alive
           THEN /\ dispatcher' = "send_failed"
                /\ UNCHANGED <<target_messages, browser_responses>>
           ELSE /\ target_messages' = Append(target_messages, parse_raw_message(inner))
                /\ UNCHANGED <<dispatcher, browser_responses>>
    /\ UNCHANGED <<next_call_id, pc, history, calls, slot,
                   target_rx_alive, browser_events, nodata>>

\* The result of target_messages_tx.send is discarded instead of expected.
DispatchTargetEventIgnoresSendError ==
    /\ Pull
    /\ \E raw \in RawEvents :
        /\ parse_raw_message(raw).event = "ReceivedMessageFromTarget"
        /\ wire_events' = Append(wire_events, raw)
        /\ LET inner == parse_raw_message(raw).message IN
           IF ~Decodable(inner)
           THEN /\ dispatcher' = "malformed"
                /\ UNCHANGED target_messages
           ELSE IF ~target_rx_alive
           THEN UNCHANGED <<target_messages, dispatcher>>
           ELSE /\ target_messages' = Append(target_messages, parse_raw_message(inner))
                /\ UNCHANGED dispatcher
    /\ UNCHANGED <<next_call_id, pc, history, calls, slot, browser_responses,
                   target_rx_alive, browser_events, nodata>>

\* EventMessage::ReceivedMessageFromTarget: the inner message is parsed and
\* sent on target_messages_tx; a parse failure or a dropped receiver panics.
DispatchTargetEvent ==
    /\ Pull
    /\ \E raw \in RawEvents :
        /\ parse_raw_message(raw).event = "ReceivedMessageFromTarget"
        /\ wire_events' = Append(wire_events, raw)
        /\ LET inner == parse_raw_message(raw).message IN
           IF ~Decodable(inner)
           THEN /\ dispatcher' = "malformed"
                /\ UNCHANGED target_messages
           ELSE IF ~target_rx_alive
           THEN /\ dispatcher' = "send_failed"
                /\ UNCHANGED target_messages
           ELSE /\ target_messages' = Append(target_messages, parse_raw_message(inner))
                /\ UNCHANGED dispatcher
    /\ UNCHANGED <<next_call_id, pc, history, calls, slot, browser_responses,
                   target_rx_alive, browser_events,
                   nodata>>

\* Every event is forwarded on target_messages_tx, whatever its name.
DispatchOtherEventForwarded ==
    /\ Pull
    /\ \E raw \in RawEvents :
        /\ parse_raw_message(raw).event = "Other"
        /\ wire_events' = Append(wire_events, raw)
        /\ target_messages' = Append(target_messages, parse_raw_message(raw))
    /\ UNCHANGED <<next_call_id, pc, history, calls, slot, browser_responses,
                   dispatcher, target_rx_alive, browser_events,
                   nodata>>

\* Any other event is only traced.
DispatchOtherEvent ==
    /\ Pull
    /\ \E raw \in RawEvents :
        /\ parse_raw_message(raw).event = "Other"
        /\ wire_events' = Append(wire_events, raw)
    /\ UNCHANGED <<next_call_id, pc, history, calls, slot, browser_responses,
                   dispatcher, target_messages, target_rx_alive, browser_events,
                   nodata>>

\* incoming_messages() ends: the loop and the thread finish.
DispatchStreamEnd ==
    /\ dispatcher = "running"
    /\ dispatcher' = "finished"
    /\ UNCHANGED <<next_call_id, pc, history, calls, slot, browser_responses,
                   target_messages, target_rx_alive, browser_events,
                   wire_events, nframes,
                   nodata>>

\* The consumer of the target-messages channel drops its receiver.
ConsumerDrop ==
    /\ target_rx_alive
    /\ target_rx_alive' = FALSE
    /\ UNCHANGED <<next_call_id, pc, history, calls, slot, browser_responses,
                   dispatcher, target_messages, browser_events, wire_events,
                   nframes,
                   nodata>>

Next ==
    \/ CallSend
    \/ CallMethodSend
    \/ Register
    \/ Recv
    \/ DropConnection
    \/ RegistryResolve
    \/ DispatchNoData
    \/ DispatchWsError
    \/ DispatchNonText
    \/ DispatchMalformed
    \/ DispatchResponse
    \/ DispatchTargetEvent
    \/ DispatchOtherEvent
    \/ DispatchStreamEnd
    \/ ConsumerDrop

Spec == Init /\ [][Next]_vars

\* The threads of the program are scheduled fairly: the calling thread, the
\* registry and the dispatcher each take their next step when it is enabled.
\* What the browser sends is not constrained.
LiveSpec ==
    /\ Spec
    /\ WF_vars(Register)
    /\ WF_vars(Recv)
    /\ WF_vars(RegistryResolve)

----------------------------------------------------------------------------
\* Properties.

Blocked(n) == n <= Len(history) /\ history[n].outcome = "InFlight"
Unblocked(n) == n <= Len(history) /\ history[n].outcome # "InFlight"

\* C1 (correlation): a call that returns successfully returns the decoded
\* result of a Response whose id is the id the call put in its request, and
\* no caller is ever handed a Response carrying another id.
Correlation ==
    /\ \A n \in 1..Len(history) :
        /\ history[n].outcome = "Ok" =>
            /\ history[n].response.call_id = history[n].id
            /\ history[n].returned = [context |-> history[n].response.result.browserContextId]
        /\ history[n].outcome = "DecodePanic" =>
            history[n].response.call_id = history[n].id
    /\ (pc = "waiting" /\ slot.state = "full") => slot.value.call_id = Cur.id

\* Two calls, one through call and one through call_method, have returned.
CorrelationWitness ==
    /\ Len(history) = 2
    /\ history[1].outcome = "Ok" /\ history[2].outcome = "Ok"
    /\ history[1].op # history[2].op
    /\ history[1].id # history[2].id

\* C2 (id uniqueness): the ids put on the wire by K calls, through call and
\* call_method in any mix, are 0, 1, ..., K-1 in issue order.
IdUniqueness ==
    LET ids == SentIds(history) IN
    \A i \in 1..Len(ids) : ids[i] = i - 1

\* C3 (no call blocks forever): a call whose request was sent and whose
\* matching Response the dispatcher then received eventually returns.
NoCallBlocksForever ==
    \A n \in 1..MaxCalls :
        (Blocked(n) /\ history[n].answered /\ ~Terminated) ~> Unblocked(n)

\* C4 (shutdown fails pending): a call outstanding when the dispatcher has
\* terminated eventually stops waiting on its delivery slot.
ShutdownFailsPending ==
    \A n \in 1..MaxCalls :
        (Blocked(n) /\ ~history[n].after_term /\ Terminated) ~> Unblocked(n)

\* C5 (interleaving safety): every caller receives its own responses and no
\* other's: a caller only ever holds a Response with its own id, and once the
\* Response to the call in progress has gone through the dispatcher and the
\* registry, it is in that caller's delivery slot.
InterleavingSafety ==
    /\ (slot.state = "full" /\ pc = "waiting") => slot.value.call_id = Cur.id
    /\ (pc = "waiting" /\ Cur.answered /\ browser_responses = <<>>)
            => slot.state = "full"

IsTargetEvent(raw) == raw.method = ReceivedMessageFromTarget
TargetEvents == SelectSeq(wire_events, IsTargetEvent)
IsOtherEvent(raw) == raw.method # ReceivedMessageFromTarget
OtherEvents == SelectSeq(wire_events, IsOtherEvent)

\* C6 (event split), as the code has it: the target-messages channel holds
\* the parsed inner messages of the Target.receivedMessageFromTarget events,
\* in wire order and nothing else, up to the first such event whose inner
\* message does not decode or whose send finds the receiver gone (that event
\* ends the dispatcher); every other event is dropped, there being no
\* browser-events channel.
EventSplitTargetOnly ==
    /\ Len(target_messages) <= Len(TargetEvents)
    /\ \A i \in 1..Len(target_messages) :
        /\ Decodable(TargetEvents[i].message)
        /\ target_messages[i] = parse_raw_message(TargetEvents[i].message)
    /\ Len(target_messages) < Len(TargetEvents) =>
        /\ Len(TargetEvents) = Len(target_messages) + 1
        /\ dispatcher \in {"malformed", "send_failed"}
        /\ ~Decodable(TargetEvents[Len(TargetEvents)].message) \/ ~target_rx_alive
    /\ browser_events = <<>>

\* Two target-nested events with another event between them were processed.
EventSplitWitness ==
    /\ Len(wire_events) = 3
    /\ IsOtherEvent(wire_events[2])
    /\ Len(target_messages) = 2
    /\ target_messages[1] # target_messages[2]

\* C6 as claimed: one inner envelope per target-nested event on the
\* target-messages channel, and every other event on the browser-events
\* channel, both in wire order.
EventSplit ==
    /\ Len(target_messages) = Len(TargetEvents)
    /\ \A i \in 1..Len(target_messages) :
        /\ Decodable(TargetEvents[i].message)
        /\ target_messages[i] = parse_raw_message(TargetEvents[i].message)
    /\ browser_events = OtherEvents

\* C7 (malformed fatal): after a non-text frame or an undecodable text the
\* dispatcher stays terminated and pulls no further frame, and every call
\* outstanding at that moment is failed, so it stops waiting.
MalformedFatal ==
    /\ [][(dispatcher \in {"malformed", "weird_message"})
            => (UNCHANGED <<dispatcher, nframes, target_messages, wire_events>>)]_vars
    /\ \A n \in 1..MaxCalls :
        (Blocked(n) /\ ~history[n].after_term
            /\ dispatcher \in {"malformed", "weird_message"}) ~> Unblocked(n)

\* C8 (protocol error is per call): a call whose Response carries an error
\* field fails with a Protocol error holding that code and message.
ProtocolErrorPerCall ==
    \A n \in 1..Len(history) :
        ("error" \in DOMAIN history[n].response
            /\ history[n].response.error # NoError)
        => /\ history[n].outcome = "Protocol"
           /\ history[n].returned = history[n].response.error

\* C9 (send failure): a call whose send failed has surfaced an error to its
\* caller, and the registry holds no entry for its id.
SendFailureSurfacesError ==
    \A n \in 1..Len(history) :
        ~history[n].sent
        => /\ history[n].outcome = "Err"
           /\ history[n].id \notin DOMAIN calls

\* C10 (future calls fail): a call started after the dispatcher terminated
\* ends with a disconnection instead of waiting forever.
FutureCallsFail ==
    \A n \in 1..MaxCalls :
        (Blocked(n) /\ history[n].after_term) ~> Unblocked(n)

----------------------------------------------------------------------------
\* Properties of the lifecycle, the registry and the dispatcher's routing.

LastEvent == wire_events'[Len(wire_events')]
EventStep == wire_events' # wire_events
InFlight == Len(history) > 0 /\ Cur.outcome = "InFlight"

\* C11 (shutdown on drop): once the Connection has been dropped the
\* dispatcher task has been signalled and joined, so it is not running.
NoDispatcherPastConnection == pc = "dropped" => Terminated

\* C12 (register before send): a call whose request frame is on the wire and
\* which has not been handed its Response has an entry in the registry.
RegisterBeforeSend ==
    (InFlight /\ Cur.sent /\ slot.state = "empty") => Cur.id \in DOMAIN calls

\* C13 (unmatched responses): callers never abandon a slot, so whenever the
\* registry takes the Response to the call in progress off its channel, it
\* finds the entry of that call.
UnmatchedOnlyIfAbandoned ==
    [][(/\ InFlight /\ Cur.answered /\ slot.state = "empty"
        /\ browser_responses # <<>>
        /\ Head(browser_responses).call_id = Cur.id
        /\ browser_responses' = Tail(browser_responses))
       => (Cur.id \in DOMAIN calls)]_vars

\* C14 (transient no-data): a NoDataAvailable leaves the dispatcher running
\* and the registry, the calls and the channels as they were; any other
\* receive error ends the dispatcher.
NoDataIsTransient ==
    /\ [][(nodata' # nodata) =>
            (/\ dispatcher = "running"
             /\ UNCHANGED <<dispatcher, calls, slot, pc, history, browser_responses,
                            target_messages, browser_events, wire_events>>)]_vars
    /\ [][DispatchWsError => (dispatcher' = "ws_error")]_vars

\* After a NoDataAvailable the dispatcher went on and forwarded a target message.
NoDataWitness ==
    /\ nodata = 1
    /\ nframes = 2
    /\ Len(target_messages) = 1
    /\ dispatcher = "running"

OtherEventsAffectNothing ==
    [][(EventStep /\ IsOtherEvent(LastEvent)) =>
            (/\ dispatcher' = "running"
             /\ UNCHANGED <<calls, slot, pc, history, browser_responses,
                            target_messages>>)]_vars

\* A browser-level event was processed while a call was waiting.
OtherEventWitness ==
    /\ wire_events # <<>>
    /\ IsOtherEvent(wire_events[Len(wire_events)])
    /\ pc = "waiting"
    /\ Cur.id \in DOMAIN calls
    /\ dispatcher = "running"

\* C18 (one outstanding call): the registry holds at most one entry, at most
\* one call is in flight, and it is the last one started.
AtMostOneOutstanding ==
    /\ Cardinality(DOMAIN calls) <= 1
    /\ \A n \in 1..Len(history) : history[n].outcome = "InFlight" => n = CallNo

\* A second call waits, registered, after the first one returned.
OneOutstandingWitness ==
    /\ Len(history) = 2
    /\ history[1].outcome = "Ok"
    /\ pc = "waiting"
    /\ Cardinality(DOMAIN calls) = 1

\* C19 (nested responses): processing an event, a target-nested one with an
\* inner Response included, hands nothing to the registry and changes no call;
\* a Response sent towards the registry is not forwarded on the
\* target-messages channel.
NestedResponsesStayNested ==
    /\ [][EventStep => UNCHANGED <<browser_responses, calls, slot, history>>]_vars
    /\ [][(Len(browser_responses') > Len(browser_responses))
            => UNCHANGED <<target_messages, wire_events>>]_vars

\* A nested Response with id 0 is on the target-messages channel while the
\* call with id 0 is still registered and unanswered.
NestedResponseWitness ==
    /\ pc = "waiting"
    /\ Cur.id = 0
    /\ 0 \in DOMAIN calls
    /\ ~Cur.answered
    /\ browser_responses = <<>>
    /\ \E i \in 1..Len(target_messages) :
        target_messages[i].type = "Response" /\ target_messages[i].call_id = 0

\* C20 (the dispatcher depends on its consumers): a target-nested event
\* processed after the target-messages receiver was dropped, and a frame that
\* is no event processed after the registry's receiver was dropped, end the
\* dispatcher; once ended it pulls no further frame.
DispatcherDependsOnConsumers ==
    /\ [][(EventStep /\ IsTargetEvent(LastEvent) /\ ~target_rx_alive)
            => Terminated']_vars
    /\ [][(nframes' # nframes /\ nodata' = nodata /\ ~EventStep /\ ~RegistryAlive)
            => Terminated']_vars
    /\ [][Terminated => (nframes' = nframes)]_vars

\* The send on the target-messages channel failed while frames were still to come.
ConsumerGoneWitness ==
    /\ dispatcher = "send_failed"
    /\ ~target_rx_alive
    /\ RegistryAlive
    /\ nframes < MaxFrames

====
